---------------------------- MODULE Spec2Model ----------------------------
(***************************************************************************)
(* Honeydew: the snapshot selection and batched deletion pipeline of       *)
(* src/src/lib.rs and src/src/structs.rs as a state machine.               *)
(*                                                                         *)
(* Strings are TLA+ strings, read character by character with SubSeq.      *)
(* A DateTime<Local> is a record of its wall clock, its offset from UTC    *)
(* and its zone; Local, the zone of the environment, is a variable.        *)
(***************************************************************************)
EXTENDS Integers, Sequences, FiniteSets, TLC

(***************************************************************************)
(* Bounds of the model.                                                    *)
(***************************************************************************)
\* lines in the text the collaborator returns for the snapshot listing
MaxListing == 2
\* the same, when the selection of the candidates is driven on its own
MaxLines == 2
\* lines in the text the collaborator returns for the exclusion source
MaxExcluded == 1
\* largest value given with --per-iteration (without it the batch size is 100)
MaxBatch == 1
\* candidates handed to destroy_snapshots when it is driven on its own
MaxCandidates == 4
\* largest batch size when destroy_snapshots is driven on its own
MaxIteration == 3
\* raw identifiers handed to get_parsed_snapshots when it is driven on its own
MaxRaw == 1

(***************************************************************************)
(* Strings.                                                                *)
(***************************************************************************)
CharAt(s, i) == SubSeq(s, i, i)

\* str::split(sep) for a one-character separator: the pieces between the
\* separators, always at least one piece
Split(s, sep) ==
    LET pos == { i \in 1..Len(s) : CharAt(s, i) = sep }
        n == Cardinality(pos)
        At(k) == IF k = 0 THEN 0
                 ELSE IF k = n + 1 THEN Len(s) + 1
                 ELSE CHOOSE p \in pos : Cardinality({ q \in pos : q < p }) = k - 1
    IN  [ k \in 1..(n + 1) |-> SubSeq(s, At(k - 1) + 1, At(k) - 1) ]

\* a line without the "\r" of its "\r\n" ending
StripReturn(line) ==
    IF line # "" /\ CharAt(line, Len(line)) = "\r"
    THEN SubSeq(line, 1, Len(line) - 1)
    ELSE line

\* the lines of a text split at "\n": every piece but the last was ended by
\* "\n"; the last piece is a line when it is not empty
LinesOf(pieces) ==
    [ k \in 1..(IF pieces[Len(pieces)] = "" THEN Len(pieces) - 1 ELSE Len(pieces)) |->
          IF k < Len(pieces) THEN StripReturn(pieces[k]) ELSE pieces[k] ]

\* str::lines(): pieces ended by "\n" or by "\r\n", without the line ending;
\* a last piece without "\n" counts when it is not empty
Lines(text) == LinesOf(Split(text, "\n"))

\* a text of lines that all end with the same line ending
RECURSIVE JoinWith(_, _)
JoinWith(ls, ending) ==
    IF ls = << >> THEN "" ELSE Head(ls) \o ending \o JoinWith(Tail(ls), ending)

JoinLines(ls) == JoinWith(ls, "\n")

\* U+000B: the literal holds the character itself
VerticalTab == ""

\* char::is_whitespace on ASCII: U+0009 to U+000D and U+0020.  The texts of
\* the model are ASCII texts: a character outside ASCII has no literal that
\* reads the same under every encoding of the module, so the White_Space of
\* Unicode outside ASCII (U+0085, U+00A0, U+1680, U+2000 to U+200A, U+2028,
\* U+2029, U+202F, U+205F, U+3000) is outside the model.
IsWhitespace(c) == c \in {" ", "\t", "\n", "\r", "\f", VerticalTab}

DigitChars == "0123456789"

IsDigit(c) == c \in {"0", "1", "2", "3", "4", "5", "6", "7", "8", "9"}

DigitVal(c) ==
    CASE c = "0" -> 0 [] c = "1" -> 1 [] c = "2" -> 2 [] c = "3" -> 3 [] c = "4" -> 4
      [] c = "5" -> 5 [] c = "6" -> 6 [] c = "7" -> 7 [] c = "8" -> 8 [] c = "9" -> 9

RECURSIVE ToNumber(_)
ToNumber(s) ==
    IF s = "" THEN 0
    ELSE ToNumber(SubSeq(s, 1, Len(s) - 1)) * 10 + DigitVal(CharAt(s, Len(s)))

DigitStr(n) == CharAt(DigitChars, n + 1)

\* the decimal digits of a natural number, at least width of them
RECURSIVE ZeroPad(_, _)
ZeroPad(n, width) ==
    IF n < 10 /\ width <= 1 THEN DigitStr(n)
    ELSE ZeroPad(n \div 10, width - 1) \o DigitStr(n % 10)

\* {:02} and {:04} of the strftime items; the sign counts in the width
Pad2(n) == IF n < 0 THEN "-" \o ZeroPad(0 - n, 1) ELSE ZeroPad(n, 2)

Pad4(n) == IF n < 0 THEN "-" \o ZeroPad(0 - n, 3) ELSE ZeroPad(n, 4)

(***************************************************************************)
(* Wall clocks.  A NaiveDateTime is read through its fields y, mo, d, h,   *)
(* mi, s and frac: the calendar day, the second of the day as hour, minute *)
(* and second (0 to 59), and the nanoseconds of the second.  As in chrono  *)
(* a frac of 1,000,000,000 or more says the second is a leap second: it is *)
(* the second after s, shown as s + 1.                                      *)
(***************************************************************************)
NoDate == [none |-> TRUE]

Billion == 1000000000

IsLeap(y) == (y % 4 = 0 /\ y % 100 # 0) \/ y % 400 = 0

DaysInMonth(y, mo) ==
    IF mo = 2 THEN (IF IsLeap(y) THEN 29 ELSE 28)
    ELSE IF mo \in {4, 6, 9, 11} THEN 30 ELSE 31

WeekdayOf(yy, mo, d) ==
    (yy + yy \div 4 - yy \div 100 + yy \div 400
        + << 0, 3, 2, 5, 0, 3, 5, 1, 4, 6, 2, 4 >>[mo] + d) % 7

\* the day of the week, 0 for Sunday
Weekday(y, mo, d) == WeekdayOf(IF mo < 3 THEN y - 1 ELSE y, mo, d)

\* the day of the month of the n-th Sunday, and of the last one
NthSunday(y, mo, n) == 1 + ((7 - Weekday(y, mo, 1)) % 7) + 7 * (n - 1)

LastSunday(y, mo) == DaysInMonth(y, mo) - Weekday(y, mo, DaysInMonth(y, mo))

\* the order of NaiveDateTime: by calendar day, then by the second of the
\* day, then by the nanoseconds
DayKey(date) == (date.y * 13 + date.mo) * 32 + date.d

SecondOfDay(date) == date.h * 3600 + date.mi * 60 + date.s

\* the order of the timestamps (whole seconds), which the zone works with
SecondsBefore(a, b) ==
    \/ DayKey(a) < DayKey(b)
    \/ DayKey(a) = DayKey(b) /\ SecondOfDay(a) < SecondOfDay(b)

SameSecond(a, b) == DayKey(a) = DayKey(b) /\ SecondOfDay(a) = SecondOfDay(b)

NaiveBefore(a, b) ==
    \/ SecondsBefore(a, b)
    \/ SameSecond(a, b) /\ a.frac < b.frac

\* one calendar day back and forth, the time of day kept
NaivePrevDay(date) ==
    IF date.d > 1 THEN [date EXCEPT !.d = date.d - 1]
    ELSE IF date.mo > 1
         THEN [date EXCEPT !.mo = date.mo - 1,
                           !.d = DaysInMonth(date.y, date.mo - 1)]
         ELSE [date EXCEPT !.y = date.y - 1, !.mo = 12, !.d = 31]

NaiveNextDay(date) ==
    IF date.d < DaysInMonth(date.y, date.mo) THEN [date EXCEPT !.d = date.d + 1]
    ELSE IF date.mo < 12 THEN [date EXCEPT !.mo = date.mo + 1, !.d = 1]
         ELSE [date EXCEPT !.y = date.y + 1, !.mo = 1, !.d = 1]

\* the wall clock at a second counted from the midnight that begins the day
\* of date, less than a day away from that day
AtSecondOfDay(date, total) ==
    [(IF total < 0 THEN NaivePrevDay(date)
      ELSE IF total >= 86400 THEN NaiveNextDay(date)
      ELSE date)
     EXCEPT !.h = (total % 86400) \div 3600,
            !.mi = ((total % 86400) % 3600) \div 60,
            !.s = (total % 86400) % 60]

\* NaiveDateTime::checked_add_offset: a wall clock moved by less than a day,
\* in seconds; the nanoseconds (and with them a leap second) are kept
AddSeconds(date, seconds) == AtSecondOfDay(date, SecondOfDay(date) + seconds)

\* n calendar days back on a wall clock
RECURSIVE NaiveMinusDays(_, _)
NaiveMinusDays(date, n) ==
    IF n = 0 THEN date ELSE NaiveMinusDays(NaivePrevDay(date), n - 1)

(***************************************************************************)
(* Time zones.  Local is the zone the environment (TZ) gives the process:  *)
(* UTC or America/New_York here.  A zone is known by its transitions: the  *)
(* instants, as UTC wall clocks, at which its offset from UTC changes, and *)
(* the offset (in seconds) from then on.  Those of New York are the ones   *)
(* of tzdata: local mean time until 1883, then standard time with the      *)
(* summer time of the rules US and NYC, the war time of 1942 to 1945       *)
(* included.                                                                *)
(***************************************************************************)
\* chrono's Local: the zone the environment gives the process
VARIABLE Local

UTC == [name |-> "UTC"]

NewYork == [name |-> "America/New_York"]

Zones == {UTC, NewYork}

\* the offsets of New York: local mean time, standard time, summer time
LMT == -17762

EST == -18000

EDT == -14400

Instant(y, mo, d, h, mi, s) ==
    [y |-> y, mo |-> mo, d |-> d, h |-> h, mi |-> mi, s |-> s, frac |-> 0]

\* summer time begins at 02:00 standard time and ends at 02:00 summer time
Spring(y, mo, d) == [at |-> Instant(y, mo, d, 7, 0, 0), after |-> EDT]

Fall(y, mo, d) == [at |-> Instant(y, mo, d, 6, 0, 0), after |-> EST]

\* the transitions of New York in the year y, in order
NewYorkTransitions(y) ==
    IF y = 1883
    THEN << [at |-> Instant(1883, 11, 18, 17, 0, 0), after |-> EST] >>
    ELSE IF y >= 1918 /\ y <= 1920
    THEN << Spring(y, 3, LastSunday(y, 3)), Fall(y, 10, LastSunday(y, 10)) >>
    ELSE IF (y >= 1921 /\ y <= 1941) \/ (y >= 1946 /\ y <= 1954)
    THEN << Spring(y, 4, LastSunday(y, 4)), Fall(y, 9, LastSunday(y, 9)) >>
    ELSE IF y = 1942
    THEN << Spring(y, 2, 9) >>
    ELSE IF y = 1945
    THEN << [at |-> Instant(1945, 8, 14, 23, 0, 0), after |-> EDT],
            Fall(y, 9, 30) >>
    ELSE IF (y >= 1955 /\ y <= 1973) \/ (y >= 1976 /\ y <= 1986)
    THEN << Spring(y, 4, LastSunday(y, 4)), Fall(y, 10, LastSunday(y, 10)) >>
    ELSE IF y = 1974
    THEN << Spring(y, 1, 6), Fall(y, 10, LastSunday(y, 10)) >>
    ELSE IF y = 1975
    THEN << Spring(y, 2, 23), Fall(y, 10, LastSunday(y, 10)) >>
    ELSE IF y >= 1987 /\ y <= 2006
    THEN << Spring(y, 4, NthSunday(y, 4, 1)), Fall(y, 10, LastSunday(y, 10)) >>
    ELSE IF y >= 2007
    THEN << Spring(y, 3, NthSunday(y, 3, 2)), Fall(y, 11, NthSunday(y, 11, 1)) >>
    ELSE << >>

\* the transitions of a zone in the year y, and its offset when y begins
Transitions(tz, y) == IF tz = NewYork THEN NewYorkTransitions(y) ELSE << >>

FirstOffset(tz, y) ==
    IF tz # NewYork THEN 0
    ELSE IF y <= 1883 THEN LMT
    ELSE IF y >= 1943 /\ y <= 1945 THEN EDT
    ELSE EST

\* TimeZone::offset_from_utc_datetime: the offset of the zone at an instant
\* given by its UTC wall clock; a transition counts from its own second on
RECURSIVE OffsetAfter(_, _, _)
OffsetAfter(transitions, prev, utc) ==
    IF transitions = << >> \/ SecondsBefore(utc, Head(transitions).at) THEN prev
    ELSE OffsetAfter(Tail(transitions), Head(transitions).after, utc)

OffsetAtUtc(tz, utc) == OffsetAfter(Transitions(tz, utc.y), FirstOffset(tz, utc.y), utc)

\* where a local wall clock lies at a transition that moves the clock from
\* start to end: "before" it, in the "gap" of a clock put forward, on the
\* "end" of that gap, in the time a clock put back shows "twice" (both ends
\* count), or "after" it.  A transition that leaves the clock alone is still
\* one: its own second counts as shown twice.
Side(local, start, end) ==
    IF SecondsBefore(end, start)
    THEN IF SecondsBefore(local, end) THEN "before"
         ELSE IF ~SecondsBefore(start, local) THEN "twice"
         ELSE "after"
    ELSE IF SameSecond(start, end)
    THEN IF SecondsBefore(local, start) THEN "before"
         ELSE IF SameSecond(local, end) THEN "twice"
         ELSE "after"
    ELSE IF ~SecondsBefore(start, local) THEN "before"
         ELSE IF SecondsBefore(local, end) THEN "gap"
         ELSE IF SameSecond(local, end) THEN "end"
         ELSE "after"

\* TimeZone::offset_from_local_datetime: the offsets a local wall clock can
\* have in the zone: none (LocalResult::None), one (Single) or two
\* (Ambiguous).  The transitions are tried in order.
RECURSIVE MapLocal(_, _, _)
RECURSIVE MapLocalAt(_, _, _, _)
MapLocal(transitions, prev, local) ==
    IF transitions = << >> THEN << prev >>
    ELSE MapLocalAt(transitions, prev, local,
                    Side(local, AddSeconds(Head(transitions).at, prev),
                         AddSeconds(Head(transitions).at, Head(transitions).after)))

MapLocalAt(transitions, prev, local, side) ==
    IF side = "before" THEN << prev >>
    ELSE IF side = "gap" THEN << >>
    ELSE IF side = "twice" THEN << prev, Head(transitions).after >>
    ELSE IF side = "end" THEN << Head(transitions).after >>
    ELSE MapLocal(Tail(transitions), Head(transitions).after, local)

offset_from_local_datetime(tz, local) ==
    MapLocal(Transitions(tz, local.y), FirstOffset(tz, local.y), local)

(***************************************************************************)
(* Dates.  A DateTime<Local> is [y, mo, d, h, mi, s, frac, off, tz]: its   *)
(* local wall clock, its offset from UTC in seconds and its zone.          *)
(* SNAPSHOT_FORMAT is "%Y-%m-%d-%H%M-%S".                                   *)
(***************************************************************************)
\* the smallest and the largest year of a NaiveDate
MIN_YEAR == -262143

MAX_YEAR == 262142

\* DateTime::naive_utc: the UTC wall clock of a date
ToUtc(date) == AddSeconds(date, 0 - date.off)

\* a date whose UTC wall clock is a NaiveDateTime, NoDate otherwise
InRange(date) ==
    IF ToUtc(date).y >= MIN_YEAR /\ ToUtc(date).y <= MAX_YEAR THEN date ELSE NoDate

\* TimeZone::from_utc_datetime
WithOffset(tz, utc, off) == [AddSeconds(utc, off) EXCEPT !.off = off, !.tz = tz]

FromUtc(tz, utc) == WithOffset(tz, utc, OffsetAtUtc(tz, utc))

\* TimeZone::from_local_datetime(...).single(): the wall clock with its
\* offset when it has exactly one in the zone
SingleOffset(local, offsets) ==
    IF Len(offsets) # 1 THEN NoDate
    ELSE InRange([local EXCEPT !.off = offsets[1]])

LocalDate(tz, local) == SingleOffset(local, offset_from_local_datetime(tz, local))

\* str::trim_left of the text from position i on: the position of the first
\* character that is no white space
RECURSIVE SkipWhitespace(_, _)
SkipWhitespace(text, i) ==
    IF i <= Len(text) /\ IsWhitespace(CharAt(text, i)) THEN SkipWhitespace(text, i + 1)
    ELSE i

\* how many digits the text has from position i on
RECURSIVE DigitRun(_, _)
DigitRun(text, i) ==
    IF i <= Len(text) /\ IsDigit(CharAt(text, i)) THEN 1 + DigitRun(text, i + 1)
    ELSE 0

AtMost(n, max) == IF n > max THEN max ELSE n

\* scan::number: how many digits the text has from position i on, at most max
DigitsFrom(text, i, max) == AtMost(DigitRun(text, i), max)

\* a number without its leading zeros
RECURSIVE Significant(_)
Significant(digits) ==
    IF Len(digits) > 1 /\ CharAt(digits, 1) = "0"
    THEN Significant(SubSeq(digits, 2, Len(digits)))
    ELSE digits

\* The state of the parser: the position in the text and the numbers read so
\* far, or NoParse after an error.
NoParse == [ok |-> FALSE]

ParseStart == [ok |-> TRUE, at |-> 1, items |-> << >>]

\* the number of n digits at position start, read with the given sign; a
\* number of more than six digits is no year
NumberItem(text, st, start, n, negative) ==
    IF n = 0 \/ Len(Significant(SubSeq(text, start, start + n - 1))) > 6 THEN NoParse
    ELSE [ok |-> TRUE, at |-> start + n,
          items |-> Append(st.items,
                           IF negative
                           THEN 0 - ToNumber(Significant(SubSeq(text, start, start + n - 1)))
                           ELSE ToNumber(Significant(SubSeq(text, start, start + n - 1))))]

\* %m, %d, %H, %M, %S: white space, then one or two digits
TwoDigitsAt(text, st, start) ==
    NumberItem(text, st, start, DigitsFrom(text, start, 2), FALSE)

TwoDigits(text, st) ==
    IF ~st.ok THEN NoParse ELSE TwoDigitsAt(text, st, SkipWhitespace(text, st.at))

\* %Y: white space, then one to four digits, or a sign and every digit that
\* follows it
YearAt(text, st, start) ==
    IF start <= Len(text) /\ CharAt(text, start) \in {"+", "-"}
    THEN NumberItem(text, st, start + 1, DigitsFrom(text, start + 1, Len(text)),
                    CharAt(text, start) = "-")
    ELSE NumberItem(text, st, start, DigitsFrom(text, start, 4), FALSE)

Year(text, st) ==
    IF ~st.ok THEN NoParse ELSE YearAt(text, st, SkipWhitespace(text, st.at))

\* the "-" between the items
Dash(text, st) ==
    IF st.ok /\ st.at <= Len(text) /\ CharAt(text, st.at) = "-"
    THEN [st EXCEPT !.at = st.at + 1]
    ELSE NoParse

\* the date of the parsed numbers: they must be a date of the calendar and a
\* time of day, and nothing may follow %S.  Second 60 is a leap second: the
\* second after second 59.
ParsedDate(tz, text, st) ==
    IF ~(/\ st.ok
         /\ st.at = Len(text) + 1
         /\ st.items[1] \in MIN_YEAR..MAX_YEAR
         /\ st.items[2] \in 1..12
         /\ st.items[3] \in 1..DaysInMonth(st.items[1], st.items[2])
         /\ st.items[4] \in 0..23
         /\ st.items[5] \in 0..59
         /\ st.items[6] \in 0..60)
    THEN NoDate
    ELSE LocalDate(tz, [y |-> st.items[1], mo |-> st.items[2], d |-> st.items[3],
                        h |-> st.items[4], mi |-> st.items[5],
                        s |-> IF st.items[6] = 60 THEN 59 ELSE st.items[6],
                        frac |-> IF st.items[6] = 60 THEN Billion ELSE 0,
                        off |-> 0, tz |-> tz])

\* tz.datetime_from_str(text, SNAPSHOT_FORMAT): the date, or NoDate for an
\* Err.  Every numeric item skips white space before it and takes as many
\* digits as it can, %Y up to 4 and the others up to 2; after a sign %Y
\* takes every digit that follows.  The "-" between the items must be
\* there, and nothing may follow %S.  The wall clock must have exactly one
\* offset in the zone.
datetime_from_str(tz, text) ==
    ParsedDate(tz, text,
        TwoDigits(text, Dash(text,
        TwoDigits(text, TwoDigits(text, Dash(text,
        TwoDigits(text, Dash(text,
        TwoDigits(text, Dash(text,
        Year(text, ParseStart)))))))))))

\* %Y: four digits for the years 0 to 9999, otherwise a sign and at least
\* four digits
FormatYear(y) ==
    IF y \in 0..9999 THEN Pad4(y)
    ELSE IF y < 0 THEN "-" \o ZeroPad(0 - y, 4)
    ELSE "+" \o ZeroPad(y, 4)

\* %S: a leap second is shown as the second after its second
FormatSecond(date) == Pad2(IF date.frac >= Billion THEN date.s + 1 ELSE date.s)

\* date.format(SNAPSHOT_FORMAT).to_string(): the wall clock of the date
FormatDate(date) ==
    FormatYear(date.y) \o "-" \o Pad2(date.mo) \o "-" \o Pad2(date.d) \o "-"
        \o Pad2(date.h) \o Pad2(date.mi) \o "-" \o FormatSecond(date)

\* the order of DateTime<Local>: the order of the instants
DateBefore(a, b) == NaiveBefore(ToUtc(a), ToUtc(b))

\* NaiveTime::overflowing_sub_signed on a leap second: taking whole seconds
\* away first leaves the leap second for the second that follows it
AfterLeapSecond(utc) ==
    IF utc.frac >= Billion THEN AddSeconds([utc EXCEPT !.frac = utc.frac - Billion], 1)
    ELSE utc

\* date - Duration::days(n): n times 24 hours before the instant, in the
\* zone of the date; NoDate where the code panics because the result is no
\* NaiveDateTime
MinusDays(date, n) ==
    IF n = 0 THEN date
    ELSE InRange(FromUtc(date.tz, NaiveMinusDays(AfterLeapSecond(ToUtc(date)), n)))

\* date - Duration::days(1)
PrevDay(date) == MinusDays(date, 1)

DEFAULT_CUTOFF == 30

get_cutoff_date(time) == MinusDays(time, DEFAULT_CUTOFF)


(***************************************************************************)
(* Snapshot (structs.rs) and the parser and filters of lib.rs.             *)
(***************************************************************************)
NoSnapshot == [none |-> TRUE]

\* Snapshot::new: the suffix is generated from the date and the label
SnapshotNew(pool, dataset, date, label) ==
    [pool |-> pool, dataset |-> dataset, date |-> date, label |-> label,
     suffix |-> FormatDate(date) \o "-" \o label]

\* impl fmt::Display for Snapshot
SnapshotToString(snapshot) ==
    snapshot.dataset \o "@" \o FormatDate(snapshot.date) \o "-" \o snapshot.label

\* a variant that also counts a snapshot taken at the cutoff as stale
is_stale_or_at_cutoff(snapshot, cutoff_date) ==
    ~DateBefore(cutoff_date, snapshot.date)

\* Snapshot::is_stale
is_stale(snapshot, cutoff_date) == DateBefore(snapshot.date, cutoff_date)

\* testing::utility::create_snapshot; NoSnapshot when the unwrap of the date
\* panics
create_snapshot(dataset, time, label) ==
    IF datetime_from_str(Local, time) = NoDate THEN NoSnapshot
    ELSE SnapshotNew(Split(dataset, "/")[1], dataset,
                     datetime_from_str(Local, time), label)

\* a variant that asks for at least six tokens after the "@" and takes the
\* last of them for the label
parse_snapshot_at_least_six(snapshot) ==
    LET initial_split == Split(snapshot, "@")
    IN  IF Len(initial_split) # 2 THEN NoSnapshot
        ELSE LET tokens == Split(initial_split[2], "-")
             IN  IF Len(tokens) < 6 THEN NoSnapshot
                 ELSE LET date == datetime_from_str(Local,
                                      tokens[1] \o "-" \o tokens[2] \o "-" \o
                                      tokens[3] \o "-" \o tokens[4] \o "-" \o
                                      tokens[5])
                      IN  IF date = NoDate THEN NoSnapshot
                          ELSE SnapshotNew(Split(initial_split[1], "/")[1],
                                           initial_split[1], date,
                                           tokens[Len(tokens)])

\* parse_snapshot: the Snapshot of a raw identifier, or NoSnapshot (None)
parse_snapshot(snapshot) ==
    LET initial_split == Split(snapshot, "@")
    IN  IF Len(initial_split) # 2 THEN NoSnapshot
        ELSE LET name_splinters == Split(initial_split[1], "/")
                 pool == name_splinters[1]
                 dataset == initial_split[1]
                 date_label_splinters == Split(initial_split[2], "-")
             IN  IF Len(date_label_splinters) # 6 THEN NoSnapshot
                 ELSE LET label == date_label_splinters[6]
                          date_string ==
                              date_label_splinters[1] \o "-" \o
                              date_label_splinters[2] \o "-" \o
                              date_label_splinters[3] \o "-" \o
                              date_label_splinters[4] \o "-" \o
                              date_label_splinters[5]
                          date == datetime_from_str(Local, date_string)
                      IN  IF date = NoDate THEN NoSnapshot
                          ELSE SnapshotNew(pool, dataset, date, label)

\* get_parsed_snapshots: lines that do not parse are skipped
RECURSIVE get_parsed_snapshots(_)
get_parsed_snapshots(unparsed_snapshots) ==
    IF unparsed_snapshots = << >> THEN << >>
    ELSE LET ps == parse_snapshot(Head(unparsed_snapshots))
         IN  (IF ps = NoSnapshot THEN << >> ELSE << ps >>)
                 \o get_parsed_snapshots(Tail(unparsed_snapshots))

\* a variant that filters by pool only, whatever the label
get_snapshots_for_pool(pool, label, snapshots) ==
    LET keep(snapshot) == snapshot.pool = pool
    IN  SelectSeq(snapshots, keep)

\* get_snapshots_for: Iterator::filter keeps the order, as SelectSeq does
get_snapshots_for(pool, label, snapshots) ==
    IF label = ""
    THEN LET keep(snapshot) == snapshot.pool = pool
         IN  SelectSeq(snapshots, keep)
    ELSE LET keep(snapshot) == snapshot.pool = pool /\ snapshot.label = label
         IN  SelectSeq(snapshots, keep)

\* get_stale_snapshots
get_stale_snapshots(snapshots, cutoff_date) ==
    LET keep(snapshot) == is_stale(snapshot, cutoff_date)
    IN  SelectSeq(snapshots, keep)

\* get_snapshots_base on an Ok result: the lines of the text
get_snapshots_base(results) == Lines(results)

\* a variant that removes only the first match of each excluded snapshot
RECURSIVE RemoveFirst(_, _)
RemoveFirst(seq, x) ==
    IF seq = << >> THEN << >>
    ELSE IF Head(seq) = x THEN Tail(seq)
    ELSE << Head(seq) >> \o RemoveFirst(Tail(seq), x)

RECURSIVE remove_first_excluded(_, _)
remove_first_excluded(snapshots, excluded_snapshots) ==
    IF excluded_snapshots = << >> THEN snapshots
    ELSE remove_first_excluded(RemoveFirst(snapshots, Head(excluded_snapshots)),
                               Tail(excluded_snapshots))

\* remove_excluded_snapshots: one retain pass per excluded snapshot
RECURSIVE remove_excluded_snapshots(_, _)
remove_excluded_snapshots(snapshots, excluded_snapshots) ==
    IF excluded_snapshots = << >> THEN snapshots
    ELSE LET keep(snapshot) == snapshot # Head(excluded_snapshots)
         IN  remove_excluded_snapshots(SelectSeq(snapshots, keep),
                                       Tail(excluded_snapshots))

\* get_relevant_snapshots on the text the collaborator returned
get_relevant_snapshots(listing_text, config, excluded_snapshots) ==
    LET unparsed_snapshots == get_snapshots_base(listing_text)
        parsed_snapshots == get_parsed_snapshots(unparsed_snapshots)
        snapshots == get_snapshots_for(config.pool, config.label, parsed_snapshots)
        stale == get_stale_snapshots(snapshots, config.date)
    IN  remove_excluded_snapshots(stale, excluded_snapshots)

\* a variant that keeps the excluded snapshots of every pool and label
get_excluded_snapshots_unfiltered(exclude_text, config) ==
    get_parsed_snapshots(get_snapshots_base(exclude_text))

\* get_excluded_snapshots on the text the collaborator returned
get_excluded_snapshots(exclude_text, config) ==
    get_snapshots_for(config.pool, config.label,
                      get_parsed_snapshots(get_snapshots_base(exclude_text)))

\* build_list_to_delete: dataset@suffix1,suffix2,...
RECURSIVE build_list_from(_, _)
build_list_from(snapshots, index) ==
    IF index > Len(snapshots) THEN ""
    ELSE (IF index = 1 THEN SnapshotToString(snapshots[index])
          ELSE snapshots[index].suffix)
         \o (IF index # Len(snapshots) THEN "," ELSE "")
         \o build_list_from(snapshots, index + 1)

build_list_to_delete(snapshots) == build_list_from(snapshots, 1)

\* a variant that collects the pools of the snapshots instead
get_datasets_by_pool(snapshots) == { snapshots[i].pool : i \in 1..Len(snapshots) }

\* get_datasets: the set of the datasets of the snapshots
get_datasets(snapshots) == { snapshots[i].dataset : i \in 1..Len(snapshots) }

\* str::trim: without the white space at both ends
RECURSIVE TrimStart(_)
TrimStart(s) ==
    IF s # "" /\ IsWhitespace(CharAt(s, 1))
    THEN TrimStart(SubSeq(s, 2, Len(s))) ELSE s

RECURSIVE TrimEnd(_)
TrimEnd(s) ==
    IF s # "" /\ IsWhitespace(CharAt(s, Len(s)))
    THEN TrimEnd(SubSeq(s, 1, Len(s) - 1)) ELSE s

Trim(s) == TrimEnd(TrimStart(s))

\* a variant that takes every answer that starts with a "y"
AnswerStartsWithYes(input) ==
    Trim(input) # "" /\ CharAt(Trim(input), 1) \in {"y", "Y"}

\* input.trim().eq_ignore_ascii_case("y")
AnswerIsYes(input) == Trim(input) \in {"y", "Y"}

(***************************************************************************)
(* Config (structs.rs).                                                    *)
(***************************************************************************)
NoConfig == [none |-> TRUE]

\* a variant that does not ask whether the exclude file exists
ConfigPanicDateOnly(date, exclude_file, file_exists) ==
    IF date # "" /\ datetime_from_str(Local, date) = NoDate THEN "date" ELSE ""

\* Config::new: why it panics, "" when it does not.  file_exists is what the
\* communicator's does_file_exist answers.
ConfigPanic(date, exclude_file, file_exists) ==
    IF date # "" /\ datetime_from_str(Local, date) = NoDate THEN "date"
    ELSE IF exclude_file # "" /\ ~file_exists THEN "file"
    ELSE ""

\* Config::new: the Config, NoConfig when it panics.  file_exists stands for
\* the communicator, now is what Local::now() returns.
ConfigNew(file_exists, pool, date, exclude_file, show_queued, show_excluded, dry_run, iteration_count, no_confirm, label, show_config, now) ==
    IF ConfigPanic(date, exclude_file, file_exists) # "" THEN NoConfig
    ELSE [pool |-> pool,
          date |-> IF date = "" THEN get_cutoff_date(now)
                   ELSE datetime_from_str(Local, date),
          exclude_file |-> exclude_file,
          show_queued |-> show_queued,
          show_excluded |-> show_excluded,
          dry_run |-> dry_run,
          iteration_count |-> iteration_count,
          no_confirm |-> no_confirm,
          label |-> label,
          show_config |-> show_config]

\* testing::utility::get_fake_config; now is what Local::now() returns
get_fake_config(pool, date, label, now) ==
    ConfigNew(TRUE, pool, date, "", FALSE, FALSE, FALSE, 100, TRUE, label, FALSE, now)

\* parse_arguments: the batch size when --per-iteration is not given
DEFAULT_ITERATIONS == 100

\* u32::MAX in decimal digits
U32_MAX == "4294967295"

\* no u32: the Err of str::parse::<u32>()
NoU32 == -1

\* of two equally long runs of digits, the first is the greater number
RECURSIVE DigitsAbove(_, _)
DigitsAbove(a, b) ==
    IF a = "" THEN FALSE
    ELSE IF CharAt(a, 1) # CharAt(b, 1)
         THEN DigitVal(CharAt(a, 1)) > DigitVal(CharAt(b, 1))
         ELSE DigitsAbove(SubSeq(a, 2, Len(a)), SubSeq(b, 2, Len(b)))

\* digits without leading zeros that say more than u32::MAX
Overflows(digits) ==
    \/ Len(digits) > Len(U32_MAX)
    \/ Len(digits) = Len(U32_MAX) /\ DigitsAbove(digits, U32_MAX)

WithoutPlus(text) ==
    IF text # "" /\ CharAt(text, 1) = "+" THEN SubSeq(text, 2, Len(text)) ELSE text

\* the number that a run of digits says; a u32 above 2^31 - 1 is beyond the
\* integers of TLC, which stops with an overflow on it
U32Digits(digits) ==
    IF digits = "" \/ DigitRun(digits, 1) # Len(digits) THEN NoU32
    ELSE IF Overflows(Significant(digits)) THEN NoU32
    ELSE ToNumber(Significant(digits))

\* str::parse::<u32>(): an optional "+" and then one or more decimal digits
\* that say at most u32::MAX; anything else is an Err (NoU32)
ParseU32(text) == U32Digits(WithoutPlus(text))

(***************************************************************************)
(* Inputs of the model.                                                    *)
(***************************************************************************)
\* sequences over S of length 0..n
BoundedSeq(S, n) == UNION { [1..k -> S] : k \in 0..n }

\* --pool (clap accepts an empty value), --label, --date, --exclude-file
Pools == {"tank", ""}

Labels == {"", "CP"}

DateArgs == {"", "2020-05-01-1200-00", "2020-13-01-0000-00"}

ExcludeFiles == {"", "keep.txt"}

\* --show-queued, --show-excluded, --show-config: they choose what is printed
\* and nothing else; the runs leave them out
ShowFlags == {FALSE}

\* the clock when Config::new reads it, and Local::now() at that instant
Clock ==
    [y |-> 2020, mo |-> 5, d |-> 31, h |-> 12, mi |-> 0, s |-> 0, frac |-> 0,
     off |-> 0, tz |-> UTC]

Now == FromUtc(Local, Clock)

\* --per-iteration as value_of gives it: << >> when the option is not given,
\* << v >> when it is given with the text v
PerIterationArgs ==
    {<< >>, <<"x">>} \cup { << ZeroPad(n, 1) >> : n \in 0..MaxBatch }

\* lines of the snapshot listing of a run: stale; stale, nested and on the
\* day of the cutoff; at the cutoff; of another pool; the first snapshot with
\* its month written "1"
ListingLines ==
    {"tank@2020-01-01-0000-00-CP",
     "tank/os@2020-05-01-1100-00-LOL",
     "tank/os@2020-05-01-1200-00-CP",
     "boot@2020-04-01-0000-00-CP",
     "tank@2020-1-01-0000-00-CP"}

\* lines of the listing when the selection of the candidates is driven on its
\* own: stale; stale, nested and on the day of the cutoff; at the cutoff; of
\* another pool; not a snapshot name; later than the cutoff
AnyLines ==
    {"tank@2020-01-01-0000-00-CP",
     "tank/os@2020-05-01-1100-00-LOL",
     "tank/os@2020-05-01-1200-00-CP",
     "boot@2020-04-01-0000-00-CP",
     "tank@lol",
     "tank@2020-06-01-0000-00-CP"}

\* lines of the exclusion source: a stale snapshot of the listing, and a
\* snapshot of another pool
ExcludeLines ==
    {"tank/os@2020-05-01-1100-00-LOL",
     "boot@2020-04-01-0000-00-CP"}

\* lines of the exclude file of a run: a stale snapshot of the listing
RunExcludeLines == {"tank/os@2020-05-01-1100-00-LOL"}

\* raw identifiers for the parser: a name, the separator, and what follows it.
\* They cover no "@", one "@" and two "@"; five, six and seven tokens after
\* it; an empty name and a name that starts with "/"; a year with a sign; a
\* wall clock that America/New_York skipped.
NameParts == {"", "tank", "tank/os", "/os"}

AtParts == {"", "@", "@a@"}

SuffixParts ==
    {"2020-01-01-0000-00-CP",
     "2020-01-01-0000-00-my-label",
     "2020-01-01-0000-00",
     "2020-01-01-0000-00-",
     "2020-13-01-0000-00-CP",
     "+2020-01-01-0000-00-CP",
     "2020-03-08-0230-00-CP",
     "lol"}

RawIdentifiers ==
    { name \o at \o suffix :
        name \in NameParts, at \in AtParts, suffix \in SuffixParts }

\* what the user types at the prompt
Answers == {"y\n", " Y" \o VerticalTab \o "\n", "n\n", "yes\n", "\n", ""}

\* candidates of destroy_snapshots when it is driven on its own
CandidateSnapshots ==
    {create_snapshot("tank/os", "2020-01-01-0000-00", "CP"),
     create_snapshot("tank/os", "2020-02-01-0000-00", "CP"),
     create_snapshot("tank", "2020-01-01-0000-00", "CP"),
     create_snapshot("tank/home", "2020-03-01-0000-00", "CP")}

(***************************************************************************)
(* The state of one run.                                                   *)
(***************************************************************************)
VARIABLES
    pc,                     \* where run() and destroy_snapshots() are
    panic,                  \* "" or the reason the run panicked
    config,                 \* the Config, NoConfig before it is built
    exclude_text,           \* what the collaborator returned for the exclude file
    excluded_snapshots,     \* run(): excluded_snapshots
    listing_text,           \* what the collaborator returned for the listing
    stale_snapshots,        \* run(): stale_snapshots, the candidates
    input,                  \* the line read at the prompt
    snapshots,              \* destroy_snapshots: the snapshots parameter
    iteration_amount,       \* destroy_snapshots: the iteration_amount parameter
    datasets,               \* datasets the outer loop has still to visit
    dataset,                \* the dataset of the current outer iteration
    snapshots_for_dataset,  \* its snapshots
    index,                  \* how many of them the inner loop has visited
    queued_snapshots,
    deleted_snapshots,
    total_processed,
    snapshot_count,
    calls,                  \* the calls made to the Communicator, in order
    reports,                \* the "Deleted | ..." lines printed, in order
    unparsed_snapshots,     \* get_parsed_snapshots: its parameter
    parsed_snapshots        \* get_parsed_snapshots: its result

vars == << Local, pc, panic, config, exclude_text, excluded_snapshots, listing_text,
           stale_snapshots, input, snapshots, iteration_amount, datasets,
           dataset, snapshots_for_dataset, index, queued_snapshots,
           deleted_snapshots, total_processed, snapshot_count, calls, reports,
           unparsed_snapshots, parsed_snapshots >>

\* get_parsed_snapshots called on its own, as its unit test calls it
parseVars == << unparsed_snapshots, parsed_snapshots >>

runVars == << Local, config, exclude_text, excluded_snapshots, listing_text,
              stale_snapshots, input, parseVars >>

destroyVars == << snapshots, iteration_amount, datasets, dataset,
                  snapshots_for_dataset, index, queued_snapshots,
                  deleted_snapshots, total_processed, snapshot_count, reports >>

\* one call to the Communicator: batch and via are used by destroy calls
Call(op, arg, ok, batch, via) ==
    [op |-> op, arg |-> arg, ok |-> ok, batch |-> batch, via |-> via]

\* get_parsed_snapshots has not been called on its own
NotParsing ==
    /\ unparsed_snapshots = << >>
    /\ parsed_snapshots = << >>

InitLocals ==
    /\ panic = ""
    /\ exclude_text = ""
    /\ excluded_snapshots = << >>
    /\ listing_text = ""
    /\ input = ""
    /\ snapshots = << >>
    /\ iteration_amount = 0
    /\ datasets = {}
    /\ dataset = ""
    /\ snapshots_for_dataset = << >>
    /\ index = 0
    /\ queued_snapshots = << >>
    /\ deleted_snapshots = << >>
    /\ total_processed = 0
    /\ snapshot_count = 0
    /\ calls = << >>
    /\ reports = << >>

\* the process has started and run() has not yet parsed its arguments; the
\* environment of a whole run has TZ=UTC
Init ==
    /\ Local = UTC
    /\ pc = "start"
    /\ config = NoConfig
    /\ stale_snapshots = << >>
    /\ InitLocals
    /\ NotParsing

(***************************************************************************)
(* run()                                                                   *)
(***************************************************************************)
\* parse_arguments: the batch size is DEFAULT_ITERATIONS or the u32 that
\* --per-iteration says, and the unwrap panics when it says none; then the
\* arguments go to Config::new, which panics on a bad date or a missing
\* exclude file
ParseArguments ==
    /\ pc = "start"
    /\ \E pool \in Pools, date \in DateArgs, exclude_file \in ExcludeFiles,
          dry_run \in BOOLEAN, no_confirm \in BOOLEAN, label \in Labels,
          per_iteration \in PerIterationArgs, file_exists \in BOOLEAN,
          show_queued \in ShowFlags, show_excluded \in ShowFlags,
          show_config \in ShowFlags :
          LET iteration_count == IF per_iteration = << >> THEN DEFAULT_ITERATIONS
                                 ELSE ParseU32(per_iteration[1])
              why == ConfigPanic(date, exclude_file, file_exists)
              asked == exclude_file # ""
                       /\ ~(date # "" /\ datetime_from_str(Local, date) = NoDate)
          IN  IF iteration_count = NoU32
              THEN /\ pc' = "panicked"
                   /\ panic' = "per-iteration"
                   /\ config' = config
                   /\ calls' = calls
              ELSE /\ asked \/ file_exists
                   /\ calls' = IF asked
                               THEN Append(calls, Call("does_file_exist", exclude_file,
                                                       file_exists, << >>, ""))
                               ELSE calls
                   /\ IF why # ""
                      THEN /\ pc' = "panicked"
                           /\ panic' = why
                           /\ config' = config
                      ELSE /\ pc' = "configured"
                           /\ panic' = panic
                           /\ config' = ConfigNew(file_exists, pool, date,
                                                  exclude_file, show_queued,
                                                  show_excluded, dry_run,
                                                  iteration_count, no_confirm,
                                                  label, show_config, Now)
    /\ UNCHANGED << Local, exclude_text, excluded_snapshots, listing_text,
                    stale_snapshots, input >>
    /\ UNCHANGED destroyVars
    /\ UNCHANGED parseVars

\* a variant that never reads the exclude file
GetExcludedSnapshotsNever ==
    /\ pc = "configured"
    /\ excluded_snapshots' = << >>
    /\ pc' = "excluded"
    /\ UNCHANGED << exclude_text, calls, panic >>
    /\ UNCHANGED << Local, config, listing_text, stale_snapshots, input >>
    /\ UNCHANGED destroyVars
    /\ UNCHANGED parseVars

\* get_excluded_snapshots: the collaborator is asked for the text of the
\* exclude file of the Config, whatever its name is, and the parsed lines of
\* this pool and label are kept; the file holds up to MaxExcluded of the given
\* lines, which end with one of the given line endings
GetExcludedSnapshotsWith(lines, endings) ==
    /\ pc = "configured"
    /\ \E ok \in BOOLEAN, ls \in BoundedSeq(lines, MaxExcluded),
          ending \in endings :
          LET text == JoinWith(ls, ending)
          IN  /\ ok \/ ls = << >>
              /\ calls' = Append(calls, Call("get_excluded_snapshots",
                                 config.exclude_file, ok, << >>, ""))
              /\ IF ok
                 THEN /\ exclude_text' = text
                      /\ excluded_snapshots' =
                             get_excluded_snapshots(text, config)
                      /\ pc' = "excluded"
                      /\ panic' = panic
                 ELSE /\ pc' = "panicked"
                      /\ panic' = "get_excluded_snapshots"
                      /\ UNCHANGED << exclude_text, excluded_snapshots >>
    /\ UNCHANGED << Local, config, listing_text, stale_snapshots, input >>
    /\ UNCHANGED destroyVars
    /\ UNCHANGED parseVars

\* run(): get_relevant_snapshots, which fetches the listing; the collaborator
\* returns up to max of the given lines, or fails
GetRelevantSnapshotsFrom(lines, max) ==
    /\ pc = "excluded"
    /\ \E ok \in BOOLEAN, ls \in BoundedSeq(lines, max) :
          LET text == JoinLines(ls)
          IN  /\ ok \/ ls = << >>
              /\ calls' = Append(calls, Call("get_snapshots", "", ok, << >>, ""))
              /\ IF ok
                 THEN /\ listing_text' = text
                      /\ stale_snapshots' =
                             get_relevant_snapshots(text, config,
                                                    excluded_snapshots)
                      /\ pc' = "relevant"
                      /\ panic' = panic
                 ELSE /\ pc' = "panicked"
                      /\ panic' = "get_snapshots"
                      /\ UNCHANGED << listing_text, stale_snapshots >>
    /\ UNCHANGED << Local, config, exclude_text, excluded_snapshots, input >>
    /\ UNCHANGED destroyVars
    /\ UNCHANGED parseVars

GetRelevantSnapshots == GetRelevantSnapshotsFrom(ListingLines, MaxListing)

GetRelevantSnapshotsOfAny == GetRelevantSnapshotsFrom(AnyLines, MaxLines)

\* run(): get_excluded_snapshots is called only when an exclude file is
\* given, and without one the exclusion list is empty; the exclude file is
\* one of a Unix editor
GetExcludedSnapshots ==
    /\ pc = "configured"
    /\ IF config.exclude_file = ""
       THEN /\ excluded_snapshots' = << >>
            /\ pc' = "excluded"
            /\ UNCHANGED << exclude_text, calls, panic >>
            /\ UNCHANGED << Local, config, listing_text, stale_snapshots, input >>
            /\ UNCHANGED destroyVars
            /\ UNCHANGED parseVars
       ELSE GetExcludedSnapshotsWith(RunExcludeLines, {"\n"})

\* get_excluded_snapshots as the unit test calls it, without the guard of
\* run(): the text is one of any editor, its lines end with "\n" or "\r\n"
GetExcludedSnapshotsOfAny == GetExcludedSnapshotsWith(ExcludeLines, {"\n", "\r\n"})

\* a variant that looks at no_confirm before dry_run
DecideNoConfirmFirst ==
    /\ pc = "relevant"
    /\ pc' = IF Len(stale_snapshots) = 0 THEN "done"
             ELSE IF config.no_confirm THEN "destroy"
             ELSE IF config.dry_run THEN "done"
             ELSE "confirm"
    /\ UNCHANGED << panic, calls >>
    /\ UNCHANGED runVars
    /\ UNCHANGED destroyVars

\* run(): after the counts are printed, what is done with the candidates
Decide ==
    /\ pc = "relevant"
    /\ pc' = IF config.dry_run THEN "done"
             ELSE IF Len(stale_snapshots) = 0 THEN "done"
             ELSE IF config.no_confirm THEN "destroy"
             ELSE "confirm"
    /\ UNCHANGED << panic, calls >>
    /\ UNCHANGED runVars
    /\ UNCHANGED destroyVars

\* run(): the prompt "Do you want to delete the above snapshots? [y/N]"
\* and read_line, whose Err panics and leaves the input as it was
ReadAnswer ==
    /\ pc = "confirm"
    /\ \E ok \in BOOLEAN, line \in Answers :
          /\ ok \/ line = ""
          /\ IF ok
             THEN /\ input' = line
                  /\ pc' = IF AnswerIsYes(line) THEN "destroy" ELSE "done"
                  /\ panic' = panic
             ELSE /\ input' = input
                  /\ pc' = "panicked"
                  /\ panic' = "read_line"
    /\ UNCHANGED << Local, calls, config, exclude_text, excluded_snapshots,
                    listing_text, stale_snapshots >>
    /\ UNCHANGED destroyVars
    /\ UNCHANGED parseVars

(***************************************************************************)
(* destroy_snapshots()                                                     *)
(***************************************************************************)
\* a variant that takes every snapshot of the pool of the dataset
SnapshotsForPool(all, d) ==
    LET keep(snapshot) == snapshot.pool = Split(d, "/")[1]
    IN  SelectSeq(all, keep)

\* the snapshots of one dataset, in the order of the candidate list
SnapshotsForDataset(all, d) ==
    LET keep(snapshot) == snapshot.dataset = d
    IN  SelectSeq(all, keep)

\* the entry of destroy_snapshots: its locals, and the set of datasets the
\* outer loop walks through
DestroyBegin ==
    /\ pc = "destroy"
    /\ snapshots' = stale_snapshots
    /\ iteration_amount' = config.iteration_count
    /\ total_processed' = 0
    /\ snapshot_count' = Len(stale_snapshots)
    /\ queued_snapshots' = << >>
    /\ deleted_snapshots' = << >>
    /\ datasets' = get_datasets(stale_snapshots)
    /\ pc' = "for_dataset"
    /\ UNCHANGED << panic, calls, reports, dataset, snapshots_for_dataset, index >>
    /\ UNCHANGED runVars

\* the outer loop: the next dataset, in the order the HashSet yields them,
\* or the check that follows the loop when none is left
ForDataset ==
    /\ pc = "for_dataset"
    /\ IF datasets = {}
       THEN /\ pc' = "check_queue"
            /\ UNCHANGED << datasets, dataset, snapshots_for_dataset, index >>
       ELSE \E d \in datasets :
               /\ datasets' = datasets \ {d}
               /\ dataset' = d
               /\ snapshots_for_dataset' = SnapshotsForDataset(snapshots, d)
               /\ index' = 0
               /\ pc' = "for_snapshot"
    /\ UNCHANGED << panic, calls, reports, snapshots, iteration_amount,
                    queued_snapshots, deleted_snapshots, total_processed,
                    snapshot_count >>
    /\ UNCHANGED runVars

\* a variant that lets the queue grow one past the batch size
ShouldFlushLate(queue_len, batch) == queue_len % (batch + 1) = 0

\* a variant that flushes one snapshot before the queue is a full batch
ShouldFlushEarly(queue_len, batch) == (queue_len + 1) % batch = 0

\* queued_snapshots.len() as u32 % iteration_amount == 0, for a batch size
\* that is not 0
ShouldFlush(queue_len, batch) == queue_len % batch = 0

\* the inner loop: queue the next snapshot of the dataset and test the length
\* of the queue (the remainder panics when iteration_amount is 0)
ForSnapshot ==
    /\ pc = "for_snapshot"
    /\ IF index = Len(snapshots_for_dataset)
       THEN /\ pc' = "chamber"
            /\ UNCHANGED << index, queued_snapshots, panic >>
       ELSE LET queue == Append(queued_snapshots, snapshots_for_dataset[index + 1])
            IN  /\ index' = index + 1
                /\ queued_snapshots' = queue
                /\ IF iteration_amount = 0
                   THEN pc' = "panicked" /\ panic' = "remainder by zero"
                   ELSE /\ pc' = IF ShouldFlush(Len(queue), iteration_amount)
                                 THEN "flush" ELSE "for_snapshot"
                        /\ panic' = panic
    /\ UNCHANGED << calls, reports, snapshots, iteration_amount, datasets, dataset,
                    snapshots_for_dataset, deleted_snapshots, total_processed,
                    snapshot_count >>
    /\ UNCHANGED runVars

\* a variant that reports the size of the batch, not the running total
CleanerReportsBatch(via, ok, next) ==
    /\ total_processed' = total_processed + Len(queued_snapshots)
    /\ calls' = Append(calls, Call("destroy_snapshots",
                                   build_list_to_delete(queued_snapshots),
                                   ok, queued_snapshots, via))
    /\ IF ok
       THEN /\ reports' = Append(reports, [numerator |-> Len(queued_snapshots),
                                           denominator |-> snapshot_count])
            /\ deleted_snapshots' = deleted_snapshots \o queued_snapshots
            /\ queued_snapshots' = << >>
            /\ pc' = next
            /\ panic' = panic
       ELSE /\ pc' = "panicked"
            /\ panic' = "destroy_snapshots"
            /\ UNCHANGED << reports, deleted_snapshots, queued_snapshots >>

\* a variant that skips a failed batch and goes on with the next one
CleanerSkipFailed(via, ok, next) ==
    LET processed == total_processed + Len(queued_snapshots)
    IN  /\ total_processed' = processed
        /\ calls' = Append(calls, Call("destroy_snapshots",
                                       build_list_to_delete(queued_snapshots),
                                       ok, queued_snapshots, via))
        /\ reports' = IF ok THEN Append(reports, [numerator |-> processed,
                                                  denominator |-> snapshot_count])
                      ELSE reports
        /\ deleted_snapshots' = IF ok THEN deleted_snapshots \o queued_snapshots
                                ELSE deleted_snapshots
        /\ queued_snapshots' = << >>
        /\ pc' = next
        /\ panic' = panic

\* the cleaner closure with build_and_destroy: one destroy call for the whole
\* queue; a failed call panics, a successful one prints the progress and
\* moves the queue to the deleted snapshots
Cleaner(via, ok, next) ==
    LET processed == total_processed + Len(queued_snapshots)
    IN  /\ total_processed' = processed
        /\ calls' = Append(calls, Call("destroy_snapshots",
                                       build_list_to_delete(queued_snapshots),
                                       ok, queued_snapshots, via))
        /\ IF ok
           THEN /\ reports' = Append(reports, [numerator |-> processed,
                                               denominator |-> snapshot_count])
                /\ deleted_snapshots' = deleted_snapshots \o queued_snapshots
                /\ queued_snapshots' = << >>
                /\ pc' = next
                /\ panic' = panic
           ELSE /\ pc' = "panicked"
                /\ panic' = "destroy_snapshots"
                /\ UNCHANGED << reports, deleted_snapshots, queued_snapshots >>

\* the flush inside the inner loop
FlushInLoop ==
    /\ pc = "flush"
    /\ \E ok \in BOOLEAN : Cleaner("loop", ok, "for_snapshot")
    /\ UNCHANGED << snapshots, iteration_amount, datasets, dataset,
                    snapshots_for_dataset, index, snapshot_count >>
    /\ UNCHANGED runVars

\* a variant without the flush after the inner loop
EmptyChamberNever ==
    /\ pc = "chamber"
    /\ pc' = "for_dataset"
    /\ UNCHANGED << panic, calls >>
    /\ UNCHANGED destroyVars
    /\ UNCHANGED runVars

\* "Empty the chamber": the flush after the inner loop
EmptyChamber ==
    /\ pc = "chamber"
    /\ IF Len(queued_snapshots) # 0
       THEN \E ok \in BOOLEAN : Cleaner("chamber", ok, "for_dataset")
       ELSE /\ pc' = "for_dataset"
            /\ UNCHANGED << panic, calls, reports, queued_snapshots,
                            deleted_snapshots, total_processed >>
    /\ UNCHANGED << snapshots, iteration_amount, datasets, dataset,
                    snapshots_for_dataset, index, snapshot_count >>
    /\ UNCHANGED runVars

\* after the loops: snapshots left in the queue are a panic, otherwise the
\* deleted snapshots are returned
CheckQueue ==
    /\ pc = "check_queue"
    /\ IF Len(queued_snapshots) # 0
       THEN pc' = "panicked" /\ panic' = "snapshots in the queue"
       ELSE pc' = "done" /\ panic' = panic
    /\ UNCHANGED << calls >>
    /\ UNCHANGED runVars
    /\ UNCHANGED destroyVars

DestroyNext ==
    \/ DestroyBegin
    \/ ForDataset
    \/ ForSnapshot
    \/ FlushInLoop
    \/ EmptyChamber
    \/ CheckQueue

Next ==
    \/ ParseArguments
    \/ GetExcludedSnapshots
    \/ GetRelevantSnapshots
    \/ Decide
    \/ ReadAnswer
    \/ DestroyNext

\* a whole run of the program
Spec == Init /\ [][Next]_vars

\* destroy_snapshots called on a candidate list, as the unit tests call it
InitDestroy ==
    /\ Local \in Zones
    /\ pc = "destroy"
    /\ \E n \in 0..MaxIteration :
          config = ConfigNew(TRUE, "tank", "2020-05-01-1200-00", "", FALSE, FALSE,
                             FALSE, n, TRUE, "", FALSE, Now)
    /\ stale_snapshots \in BoundedSeq(CandidateSnapshots, MaxCandidates)
    /\ InitLocals
    /\ NotParsing

SpecDestroy == InitDestroy /\ [][DestroyNext]_vars

\* the selection of the candidates on its own: get_excluded_snapshots and
\* get_relevant_snapshots called as the unit tests call them, with a Config
\* of get_fake_config, which names no exclude file
InitRelevant ==
    /\ Local \in Zones
    /\ pc = "configured"
    /\ \E pool \in {"tank", "boot"}, label \in Labels :
          config = get_fake_config(pool, "2020-05-01-1200-00", label, Now)
    /\ stale_snapshots = << >>
    /\ InitLocals
    /\ NotParsing

RelevantNext ==
    \/ GetExcludedSnapshotsOfAny
    \/ GetRelevantSnapshotsOfAny

SpecRelevant == InitRelevant /\ [][RelevantNext]_vars

(***************************************************************************)
(* get_parsed_snapshots on its own, as its unit tests call it.             *)
(***************************************************************************)
InitParse ==
    /\ Local \in Zones
    /\ pc = "parse"
    /\ config = NoConfig
    /\ stale_snapshots = << >>
    /\ InitLocals
    /\ unparsed_snapshots \in BoundedSeq(RawIdentifiers, MaxRaw)
    /\ parsed_snapshots = << >>

\* get_parsed_snapshots: the whole loop over the raw identifiers
GetParsedSnapshots ==
    /\ pc = "parse"
    /\ parsed_snapshots' = get_parsed_snapshots(unparsed_snapshots)
    /\ pc' = "parsed"
    /\ UNCHANGED << Local, panic, calls, config, exclude_text, excluded_snapshots,
                    listing_text, stale_snapshots, input, unparsed_snapshots >>
    /\ UNCHANGED destroyVars

SpecParse == InitParse /\ [][GetParsedSnapshots]_vars

(***************************************************************************)
(* Properties.                                                             *)
(***************************************************************************)
Range(seq) == { seq[i] : i \in DOMAIN seq }

Count(seq, x) == Cardinality({ i \in DOMAIN seq : seq[i] = x })

IsDestroy(call) == call.op = "destroy_snapshots"

\* the destroy calls made so far, in order
DestroyCalls == SelectSeq(calls, IsDestroy)

\* the destroy calls whose batch starts with a snapshot of dataset d
DestroyCallsOf(d) ==
    LET of(call) == IsDestroy(call) /\ call.batch[1].dataset = d
    IN  SelectSeq(calls, of)

\* C1: every destroy call names snapshots of one dataset only, and names that
\* dataset in its argument; tank and tank/os are different datasets.
C1_BatchesNeverMixDatasets ==
    \A i \in DOMAIN calls :
        IsDestroy(calls[i]) =>
            /\ calls[i].batch # << >>
            /\ \A j \in DOMAIN calls[i].batch :
                   calls[i].batch[j].dataset = calls[i].batch[1].dataset
            /\ Split(calls[i].arg, "@")[1] = calls[i].batch[1].dataset

\* C1 witness: a finished run whose calls went to tank and to tank/os, one of
\* them with two snapshots.
C1_Witness ==
    /\ pc = "done"
    /\ \E i, j \in DOMAIN calls :
          /\ IsDestroy(calls[i]) /\ IsDestroy(calls[j])
          /\ calls[i].batch[1].dataset = "tank"
          /\ calls[j].batch[1].dataset = "tank/os"
          /\ Len(calls[j].batch) = 2

\* C4: when destroy_snapshots returns, the deleted snapshots are the
\* candidates, each as often as in the candidate list.
C4_DeletedIsPermutation ==
    pc = "done" =>
        /\ Len(deleted_snapshots) = Len(snapshots)
        /\ \A x \in Range(snapshots) \cup Range(deleted_snapshots) :
               Count(deleted_snapshots, x) = Count(snapshots, x)

\* C4 witness: four candidates of three datasets, one of them twice, returned
\* in another order than they were given.
C4_Witness ==
    /\ pc = "done"
    /\ Len(snapshots) = 4
    /\ Cardinality(get_datasets(snapshots)) = 3
    /\ deleted_snapshots # snapshots
    /\ Len(deleted_snapshots) = 4

\* C5: when destroy_snapshots returns, a dataset with n candidates got
\* ceil(n/b) destroy calls, each of b snapshots but the last, which has
\* between 1 and b.
C5_CallsPerDataset ==
    pc = "done" =>
        \A d \in get_datasets(snapshots) :
            LET n == Len(SelectSeq(snapshots, LAMBDA x : x.dataset = d))
                b == iteration_amount
                cs == DestroyCallsOf(d)
            IN  /\ Len(cs) = (n + b - 1) \div b
                /\ \A k \in 1..(Len(cs) - 1) : Len(cs[k].batch) = b
                /\ Len(cs[Len(cs)].batch) \in 1..b
                /\ b > n => Len(cs) = 1

\* C5 witness: four candidates of one dataset with batch size 2 gave exactly
\* two calls of two snapshots.
C5_Witness ==
    /\ pc = "done"
    /\ iteration_amount = 2
    /\ Len(snapshots) = 4
    /\ get_datasets(snapshots) = {"tank/os"}
    /\ Len(calls) = 2
    /\ \A i \in DOMAIN calls : IsDestroy(calls[i]) /\ Len(calls[i].batch) = 2

\* the lines of a text that are snapshot names, parsed, in order
ParsedLines(text) ==
    LET ls == Lines(text)
        parsed == [ i \in DOMAIN ls |-> parse_snapshot(ls[i]) ]
    IN  SelectSeq(parsed, LAMBDA x : x # NoSnapshot)

\* C2: once the candidates are selected, no snapshot named by a line of the
\* exclusion source is in the candidate list, whatever its date.
C2_ExclusionAlwaysWins ==
    pc = "relevant" =>
        \A x \in Range(ParsedLines(exclude_text)) : x \notin Range(stale_snapshots)

\* C2 witness: a stale snapshot of the pool is listed and excluded, and it is
\* not among the candidates that are left.
C2_Witness ==
    /\ pc = "relevant"
    /\ stale_snapshots # << >>
    /\ \E x \in Range(ParsedLines(exclude_text)) \cap Range(ParsedLines(listing_text)) :
          /\ x.pool = config.pool
          /\ config.label \in {"", x.label}
          /\ is_stale(x, config.date)
          /\ x \notin Range(stale_snapshots)

\* C3: the candidate list is, in listing order, the parsed lines of the
\* listing that are of the pool, carry the label when one is asked for, are
\* earlier than the cutoff and equal no snapshot of the exclusion list.
C3_CandidatesAreTheFilteredListing ==
    pc = "relevant" =>
        stale_snapshots =
            SelectSeq(ParsedLines(listing_text),
                      LAMBDA x : /\ x.pool = config.pool
                                 /\ (config.label # "" => x.label = config.label)
                                 /\ DateBefore(x.date, config.date)
                                 /\ \A j \in DOMAIN excluded_snapshots :
                                        x # excluded_snapshots[j])

\* C3 witness: a label is asked for, the listing has a line that is no
\* snapshot name before a stale snapshot of the pool with that label, and the
\* run goes on with that one candidate.
C3_Witness ==
    /\ pc = "relevant"
    /\ config.label = "CP"
    /\ Lines(listing_text) = << "tank@lol", "tank@2020-01-01-0000-00-CP" >>
    /\ Len(stale_snapshots) = 1
    /\ stale_snapshots[1].dataset = "tank"

\* the batches of the destroy calls that succeeded, one after the other
RECURSIVE BatchesOf(_)
BatchesOf(cs) ==
    IF cs = << >> THEN << >>
    ELSE (IF IsDestroy(Head(cs)) /\ Head(cs).ok THEN Head(cs).batch ELSE << >>)
             \o BatchesOf(Tail(cs))

\* C6: a failed destroy call is the last call of the run: the run has
\* panicked, the failed batch is not among the deleted snapshots, and the
\* deleted snapshots are the batches of the calls that succeeded before.
C6_FailedDestroyAborts ==
    \A i \in DOMAIN calls :
        (IsDestroy(calls[i]) /\ ~calls[i].ok) =>
            /\ i = Len(calls)
            /\ pc = "panicked"
            /\ deleted_snapshots = BatchesOf(SubSeq(calls, 1, i - 1))
            /\ queued_snapshots = calls[i].batch

\* C6 witness: a destroy call failed after another one had succeeded.
C6_Witness ==
    \E i, j \in DOMAIN calls :
        /\ i < j
        /\ IsDestroy(calls[i]) /\ calls[i].ok
        /\ IsDestroy(calls[j]) /\ ~calls[j].ok
        /\ deleted_snapshots = calls[i].batch

\* the order of the dates, field by field
\* the fields of the instant of a date, on the UTC wall clock
DateFields(date) ==
    LET utc == ToUtc(date)
    IN  << utc.y, utc.mo, utc.d, utc.h, utc.mi, utc.s, utc.frac >>

StrictlyEarlier(a, b) ==
    \E k \in 1..7 :
        /\ DateFields(a)[k] < DateFields(b)[k]
        /\ \A j \in 1..(k - 1) : DateFields(a)[j] = DateFields(b)[j]

\* C7: of the listed snapshots of the pool and label, the staleness filter
\* keeps those strictly earlier than the cutoff and no other: no candidate
\* is at or after the cutoff, and every earlier one that is not excluded is
\* a candidate.
C7_StaleIsStrictlyEarlier ==
    pc = "relevant" =>
        /\ \A x \in Range(stale_snapshots) : StrictlyEarlier(x.date, config.date)
        /\ \A x \in Range(get_snapshots_for(config.pool, config.label,
                                            ParsedLines(listing_text))) :
               (StrictlyEarlier(x.date, config.date)
                    /\ x \notin Range(excluded_snapshots))
                   => x \in Range(stale_snapshots)

\* C7 witness: the listing has a snapshot of the pool taken at the cutoff and
\* an earlier one, and only the earlier one is a candidate.
C7_Witness ==
    /\ pc = "relevant"
    /\ \E x \in Range(ParsedLines(listing_text)) :
          x.pool = config.pool /\ x.date = config.date
    /\ Len(stale_snapshots) = 1

\* C8: with dry_run set, no destroy call is made and destroy_snapshots is
\* not entered.
C8_DryRunDestroysNothing ==
    (config # NoConfig /\ config.dry_run) =>
        /\ DestroyCalls = << >>
        /\ pc \in {"configured", "excluded", "relevant", "done", "panicked"}

\* C8 witness: a run with dry_run and no_confirm set ended with candidates.
C8_Witness ==
    /\ pc = "done"
    /\ config.dry_run
    /\ config.no_confirm
    /\ stale_snapshots # << >>

\* C9: when Config::new fails (the date does not parse, or the collaborator
\* says the exclude file does not exist), the run has panicked without a
\* Config, and the only calls made are does_file_exist.
C9_ConfigErrorIsFatalAtStartup ==
    (\/ panic = "date"
     \/ \E i \in DOMAIN calls : calls[i].op = "does_file_exist" /\ ~calls[i].ok)
        => /\ pc = "panicked"
           /\ config = NoConfig
           /\ \A i \in DOMAIN calls : calls[i].op = "does_file_exist"

\* C9 witness: the run panicked because the exclude file does not exist.
C9_Witness ==
    /\ pc = "panicked"
    /\ panic = "file"
    /\ Len(calls) = 1
    /\ ~calls[1].ok

\* C10: no Config has an empty pool, so no step of the run works with an
\* empty target pool.
C10_NoConfigWithEmptyPool ==
    config # NoConfig => config.pool # ""

\* C11: every Config that construction accepts has a batch size of at least
\* one, so the remainder of the queue length by the batch size is always
\* defined and destroy_snapshots never fails on a batch size of zero.
C11_BatchSizeIsPositive ==
    /\ config # NoConfig => config.iteration_count >= 1
    /\ panic # "remainder by zero"

\* how many times a character occurs in a text
CountOf(text, char) ==
    Cardinality({ i \in 1..Len(text) : CharAt(text, i) = char })

\* the text after the first "@" of a raw identifier that has one
AfterAt(raw) ==
    LET at == CHOOSE i \in 1..Len(raw) :
                  /\ CharAt(raw, i) = "@"
                  /\ \A j \in 1..(i - 1) : CharAt(raw, j) # "@"
    IN  SubSeq(raw, at + 1, Len(raw))

\* a raw identifier without exactly one "@", or whose text after the "@"
\* does not split on "-" into exactly six tokens
IsMalformed(raw) ==
    \/ CountOf(raw, "@") # 1
    \/ CountOf(AfterAt(raw), "-") # 5

\* C12: a raw identifier with no "@" or more than one "@", or whose part
\* after the "@" does not split on "-" into exactly six tokens (a label with
\* a hyphen in it), gives no Snapshot: every parsed snapshot comes from a
\* well-formed identifier, and there are at most as many of them as
\* well-formed identifiers.  The rejection does not abort: the parse ends
\* without a panic.
C12_MalformedIsSkipped ==
    pc = "parsed" =>
        /\ panic = ""
        /\ Len(parsed_snapshots)
              <= Cardinality({ i \in DOMAIN unparsed_snapshots :
                                   ~IsMalformed(unparsed_snapshots[i]) })
        /\ \A i \in DOMAIN parsed_snapshots :
              \E j \in DOMAIN unparsed_snapshots :
                  LET raw == unparsed_snapshots[j]
                      label == parsed_snapshots[i].label
                  IN  /\ ~IsMalformed(raw)
                      /\ parsed_snapshots[i].dataset \o "@" \o AfterAt(raw) = raw
                      /\ SubSeq(raw, Len(raw) - Len(label), Len(raw))
                            = "-" \o label

\* C12 witness: an identifier with one "@" and a hyphen in its label has
\* been handed to the parser, which returned nothing for it.
C12_Witness ==
    /\ pc = "parsed"
    /\ unparsed_snapshots # << >>
    /\ \A i \in DOMAIN unparsed_snapshots :
          /\ CountOf(unparsed_snapshots[i], "@") = 1
          /\ CountOf(AfterAt(unparsed_snapshots[i]), "-") = 6
    /\ parsed_snapshots = << >>

\* whether a text starts with another
IsPrefixOf(prefix, text) ==
    /\ Len(prefix) <= Len(text)
    /\ SubSeq(text, 1, Len(prefix)) = prefix

\* C13: every Snapshot the parser accepts has a pool that is a non-empty
\* prefix of its dataset, and equal to the dataset when the dataset has no
\* "/"; this for every raw identifier, also one whose dataset part is empty
\* or starts with "/".
C13_PoolIsNonEmptyPrefix ==
    pc = "parsed" =>
        \A i \in DOMAIN parsed_snapshots :
            LET snapshot == parsed_snapshots[i]
            IN  /\ snapshot.pool # ""
                /\ IsPrefixOf(snapshot.pool, snapshot.dataset)
                /\ CountOf(snapshot.dataset, "/") = 0
                      => snapshot.pool = snapshot.dataset

\* the candidates before the exclusion list is subtracted from them
BeforeExclusion ==
    get_stale_snapshots(
        get_snapshots_for(config.pool, config.label, ParsedLines(listing_text)),
        config.date)

\* C14: subtracting the exclusion list is idempotent: the candidate list is
\* what is left of the candidates after the subtraction, and subtracting the
\* same exclusion list from it again gives exactly the same list, in the same
\* order.
C14_SubtractionIsIdempotent ==
    pc = "relevant" =>
        /\ stale_snapshots
              = remove_excluded_snapshots(BeforeExclusion, excluded_snapshots)
        /\ remove_excluded_snapshots(stale_snapshots, excluded_snapshots)
              = stale_snapshots

\* C14 witness: the subtraction removed a candidate and left another one.
C14_Witness ==
    /\ pc = "relevant"
    /\ stale_snapshots # << >>
    /\ Len(stale_snapshots) < Len(BeforeExclusion)
    /\ \E x \in Range(excluded_snapshots) : x \in Range(BeforeExclusion)

\* the names a destroy call passes: its argument is "dataset@a,b,c", which
\* names dataset@a, dataset@b and dataset@c
NamesIn(call) ==
    LET halves == Split(call.arg, "@")
        suffixes == Split(halves[2], ",")
    IN  [ i \in DOMAIN suffixes |-> halves[1] \o "@" \o suffixes[i] ]

\* the snapshots a destroy call names
NamedBy(call) ==
    [ i \in DOMAIN NamesIn(call) |-> parse_snapshot(NamesIn(call)[i]) ]

\* the snapshots named by a sequence of calls, one call after the other
RECURSIVE NamedByAll(_)
NamedByAll(cs) ==
    IF cs = << >> THEN << >>
    ELSE (IF IsDestroy(Head(cs)) THEN NamedBy(Head(cs)) ELSE << >>)
             \o NamedByAll(Tail(cs))

\* a destroy call names only candidates: snapshots of the pool, with the
\* label when one was asked for, stale, not excluded, and none more often
\* than it is in the candidate list
OnlyCandidatesAreNamed ==
    \A x \in Range(NamedByAll(calls)) :
        /\ x # NoSnapshot
        /\ x \in Range(stale_snapshots)
        /\ x.pool = config.pool
        /\ config.label \in {"", x.label}
        /\ is_stale(x, config.date)
        /\ x \notin Range(ParsedLines(exclude_text))
        /\ Count(NamedByAll(calls), x) <= Count(stale_snapshots, x)

\* destroy_snapshots was entered and has returned
DestroyReturned == pc = "done" /\ snapshot_count > 0

\* every name a destroy call passes is the name written from the parsed
\* Snapshot (dataset@date-label with the date in SNAPSHOT_FORMAT), whatever
\* the listing line it was parsed from looked like
NamesAreWrittenFromTheSnapshots ==
    \A i \in DOMAIN calls :
        IsDestroy(calls[i]) =>
            \A k \in DOMAIN NamesIn(calls[i]) :
                NamesIn(calls[i])[k] = SnapshotToString(NamedBy(calls[i])[k])

\* how many candidates the dataset of a destroy call has
PartitionSizeOf(call) ==
    Len(SnapshotsForDataset(snapshots, call.batch[1].dataset))

\* C16: when the batch size is strictly greater than the number of
\* candidates of a dataset, the test of the queue length never triggers
\* while that dataset is iterated, and the whole partition is flushed as one
\* batch by the flush after the partition, not by the flush in the loop.
\* When the batch size equals the number of candidates of the dataset, the
\* whole partition is flushed as one batch by the flush in the loop, and the
\* flush after the partition makes no call.
C16_LargeBatchIsFlushedByTheChamber ==
    /\ pc = "flush" => Len(snapshots_for_dataset) >= iteration_amount
    /\ \A i \in DOMAIN calls :
          (IsDestroy(calls[i]) /\ PartitionSizeOf(calls[i]) < iteration_amount)
              => /\ calls[i].via = "chamber"
                 /\ calls[i].batch
                       = SnapshotsForDataset(snapshots, calls[i].batch[1].dataset)
    /\ \A i \in DOMAIN calls :
          (IsDestroy(calls[i]) /\ PartitionSizeOf(calls[i]) = iteration_amount)
              => /\ calls[i].via = "loop"
                 /\ calls[i].batch
                       = SnapshotsForDataset(snapshots, calls[i].batch[1].dataset)
    /\ pc = "done" =>
          \A d \in get_datasets(snapshots) :
              Len(SnapshotsForDataset(snapshots, d)) <= iteration_amount
                  => Len(DestroyCallsOf(d)) = 1

\* C16 witness: a dataset with two candidates and a batch size of three, its
\* batch of two flushed after the partition.
C16_Witness ==
    /\ iteration_amount = 3
    /\ \E i \in DOMAIN calls :
          /\ IsDestroy(calls[i])
          /\ PartitionSizeOf(calls[i]) = 2
          /\ Len(calls[i].batch) = 2
          /\ calls[i].via = "chamber"

\* C16 as stated: the same for a batch size greater than or equal to the
\* number of candidates of the dataset.
C16_BatchAtLeastPartitionIsFlushedByTheChamber ==
    \A i \in DOMAIN calls :
        (IsDestroy(calls[i]) /\ PartitionSizeOf(calls[i]) <= iteration_amount)
            => /\ calls[i].via = "chamber"
               /\ calls[i].batch
                     = SnapshotsForDataset(snapshots, calls[i].batch[1].dataset)

\* C17: the queue is empty when the outer loop takes a dataset, when the
\* inner loop starts on it, and when the outer loop has ended; so the queue
\* is empty after all the partitions and the run never panics for snapshots
\* left in the queue.
C17_QueueEmptyBetweenPartitions ==
    /\ pc \in {"for_dataset", "check_queue", "done"} => queued_snapshots = << >>
    /\ (pc = "for_snapshot" /\ index = 0) => queued_snapshots = << >>
    /\ panic # "snapshots in the queue"

\* C17 witness: the outer loop has ended after two datasets, the last batch
\* flushed after its partition, and the queue is empty.
C17_Witness ==
    /\ pc = "check_queue"
    /\ Cardinality(get_datasets(snapshots)) >= 2
    /\ calls # << >>
    /\ calls[Len(calls)].via = "chamber"
    /\ Len(calls[Len(calls)].batch) < iteration_amount
    /\ queued_snapshots = << >>

\* the positions in the log of the calls of one operation
CallsOf(op) == { i \in DOMAIN calls : calls[i].op = op }

\* the order of the calls made so far
CallsAreInOrder ==
    /\ Cardinality(CallsOf("get_excluded_snapshots")) <= 1
    /\ Cardinality(CallsOf("get_snapshots")) <= 1
    /\ \A i \in CallsOf("get_snapshots") :
          /\ \A j \in CallsOf("get_excluded_snapshots") : j < i
          /\ config.exclude_file # ""
                => \E j \in CallsOf("get_excluded_snapshots") : j < i /\ calls[j].ok
    /\ \A i \in CallsOf("destroy_snapshots") :
          \E j \in CallsOf("get_snapshots") : j < i /\ calls[j].ok
    /\ \A i \in DOMAIN calls : i < Len(calls) => calls[i].ok
    /\ pc \in {"relevant", "confirm", "destroy", "for_dataset", "for_snapshot",
               "flush", "chamber", "check_queue", "done"}
          => Cardinality(CallsOf("get_snapshots")) = 1

\* a step makes at most one call, after the calls that were made before it
OneCallAtATime ==
    \/ calls' = calls
    \/ /\ Len(calls') = Len(calls) + 1
       /\ SubSeq(calls', 1, Len(calls)) = calls

\* C18: the calls to the collaborator are made one after the other: the
\* exclude file, when one is given, is read before the listing is fetched;
\* the listing is fetched exactly once, before the first destroy call; every
\* call has returned, and returned Ok, before the next one is made, and no
\* step makes two calls.
C18_CallsAreSequenced == []CallsAreInOrder /\ [][OneCallAtATime]_vars

\* C18 witness: the exclude file was read, then the listing was fetched, then
\* two destroy calls were made.
C18_Witness ==
    /\ Len(calls) = 5
    /\ calls[1].op = "does_file_exist"
    /\ calls[2].op = "get_excluded_snapshots"
    /\ calls[3].op = "get_snapshots"
    /\ calls[4].op = "destroy_snapshots"
    /\ calls[5].op = "destroy_snapshots"

\* C19: the exclusion list of the run is, in order, the parseable lines of
\* the exclude file whose pool is the pool of the run and, when a label is
\* asked for, whose label is that label.  An entry of another pool or label
\* is dropped, and dropping it changes nothing: the candidate list is what
\* subtracting every parseable line of the exclude file would leave.
C19_ExclusionListIsFilteredByPoolAndLabel ==
    /\ pc \in {"excluded", "relevant"}
          => excluded_snapshots
                = SelectSeq(ParsedLines(exclude_text),
                            LAMBDA x : /\ x.pool = config.pool
                                       /\ config.label # "" => x.label = config.label)
    /\ pc = "relevant"
          => stale_snapshots
                = remove_excluded_snapshots(BeforeExclusion,
                                            ParsedLines(exclude_text))

\* C19 witness: the exclude file names a snapshot of another pool or label,
\* the exclusion list of the run is empty, and candidates are left.
C19_Witness ==
    /\ pc = "relevant"
    /\ ParsedLines(exclude_text) # << >>
    /\ excluded_snapshots = << >>
    /\ stale_snapshots # << >>

\* the destroy calls that returned Ok, in order
SucceededCalls == SelectSeq(calls, LAMBDA call : IsDestroy(call) /\ call.ok)

\* C20: there is one progress report per destroy call that succeeded and no
\* other; the numerator of the k-th report is the number of snapshots the
\* first k successful calls destroyed, over all datasets, and its
\* denominator the number of candidates; the numerators strictly increase
\* and never pass the denominator, and when destroy_snapshots returns the
\* last report has its numerator equal to its denominator.
C20_ProgressIsCumulative ==
    /\ Len(reports) = Len(SucceededCalls)
    /\ \A k \in DOMAIN reports :
          /\ reports[k].numerator = Len(BatchesOf(SubSeq(SucceededCalls, 1, k)))
          /\ reports[k].denominator = Len(snapshots)
          /\ reports[k].numerator <= reports[k].denominator
          /\ k > 1 => reports[k - 1].numerator < reports[k].numerator
    /\ (pc = "done" /\ snapshots # << >>)
          => /\ reports # << >>
             /\ reports[Len(reports)].numerator = reports[Len(reports)].denominator

\* C20 witness: destroy_snapshots returned after three reports, the second
\* one for a batch of another dataset than the first.
C20_Witness ==
    /\ pc = "done"
    /\ Len(reports) = 3
    /\ reports[1].numerator = 1
    /\ reports[2].numerator = 3
    /\ reports[3].numerator = 4
    /\ calls[1].batch[1].dataset # calls[2].batch[1].dataset

\* white space of an answer typed at the prompt
IsBlank(char) == char \in {" ", "\n", "\t", "\r", "\f", VerticalTab}

\* the answer is one "y" or "Y" with nothing but white space around it
SaidYes(answer) ==
    \E i \in 1..Len(answer) :
        /\ CharAt(answer, i) \in {"y", "Y"}
        /\ \A j \in (1..Len(answer)) \ {i} : IsBlank(CharAt(answer, j))

\* destroy_snapshots has been entered
DestroyEntered ==
    \/ pc \in {"destroy", "for_dataset", "for_snapshot", "flush", "chamber",
               "check_queue"}
    \/ snapshot_count > 0
    \/ \E i \in DOMAIN calls : IsDestroy(calls[i])

\* C21: without dry-run and without no-confirm, destroy_snapshots is entered
\* and a destroy call is made only after an answer that is "y" once trimmed
\* and compared without regard to case; after any other answer, the empty
\* one included, there is none.  The prompt is shown only for a candidate
\* list that is not empty, and with an empty candidate list no destroy call
\* is made.
C21_DestroyOnlyAfterYes ==
    /\ (config # NoConfig /\ ~config.dry_run /\ ~config.no_confirm)
          => (DestroyEntered <=> SaidYes(input))
    /\ pc = "confirm"
          => /\ stale_snapshots # << >>
             /\ ~config.dry_run
             /\ ~config.no_confirm
             /\ input = ""
    /\ (pc \notin {"start", "configured", "excluded"} /\ stale_snapshots = << >>)
          => /\ ~DestroyEntered
             /\ input = ""

\* C21 witness: the user answered " Y " at the prompt and a destroy call was
\* made.
C21_Witness ==
    /\ config # NoConfig
    /\ ~config.dry_run
    /\ ~config.no_confirm
    /\ input # "y\n"
    /\ SaidYes(input)
    /\ \E i \in DOMAIN calls : IsDestroy(calls[i])

=============================================================================
